---- MODULE Spec2Model ----
(***************************************************************************)
(* Model of core/commands/pin.go (go-ipfs): the "pin add" command with its *)
(* synchronous and progress-streaming modes, and the "pin ls" listing.     *)
(*                                                                         *)
(* Spec    one "pin add" request: the Run handler, the worker goroutine    *)
(*         that runs corerepo.Pin, the relay goroutine with its ticker,    *)
(*         the consumer of the output channel, the request context and the *)
(*         garbage collector that competes for the GC lock.                *)
(* SpecLs  the pin state under pin/unpin requests and "pin ls" without     *)
(*         arguments (pinLsAll) over every link graph on Cids.             *)
(***************************************************************************)
EXTENDS Integers, Sequences, FiniteSets, TLC

\* ---------------------------------------------------------------- bounds
\* Largest value the ProgressTracker counter reaches in the model.
MaxProgress == 2
\* Number of times the 500 ms ticker fires in the model.
MaxTicks == 2
\* Largest number of pin records (direct plus recursive) held at once.
MaxPins == 2
MaxOverlap == 1

\* The content identifiers of the model and the one path given to "pin add".
Cids == {"a", "b", "c"}
Root == "a"

VARIABLES
    pc,            \* position of addPinCmd.Run
    showProgress,  \* the "progress" option
    recursive,     \* the "recursive" option
    gcLock,        \* number of holders of Blockstore.PinLock()
    lockCount,     \* PinLock() calls made by the request
    unlockCount,   \* Unlock() calls made by the request
    gc,            \* the garbage collector holds the GC lock and sweeps
    cancelled,     \* req.Context() is done
    cancelMid,     \* the context was cancelled before corerepo.Pin returned
    pinState,      \* corerepo.Pin: idle, running, ok, failed, cancelled
    progress,      \* ProgressTracker value v.Value()
    wpc,           \* position of the worker goroutine (lines 88-96)
    chClosed,      \* channel ch is closed
    rpc,           \* position of the relay goroutine (lines 99-122)
    pending,       \* the value the relay is blocked sending on out
    tick,          \* ticker.C holds a tick
    tickerOn,      \* the ticker is created and not stopped
    ticks,         \* ticks fired so far
    out,           \* the values the consumer received from out, in order
    outClosed,     \* channel out is closed
    errCount,      \* number of res.SetError calls
    resErr,        \* the error held by the response
    resOut,        \* what res.SetOutput was given
    directKeys,    \* n.Pinning.DirectKeys()
    recursiveKeys, \* n.Pinning.RecursiveKeys()
    links,         \* n.DAG.GetLinks: identifier -> child identifiers
    missing,       \* identifiers whose links cannot be fetched
    lsType,        \* the "type" option when the last request was a "pin ls"
    lsKeys,        \* the keys map in the response of that "pin ls"
    lsErr,         \* the last "pin ls" returned an error
    lsArgs,        \* the paths given to that "pin ls"
    lsErrAt,       \* position in lsArgs of the path its error is for, or 0
    lsPc,          \* position of a pinLsAll that runs beside other requests
    resultKeys,    \* the keys map that pinLsAll is filling
    lsSerial,      \* the listings of the pin states since that pinLsAll began
    lsOverlap,     \* pin and unpin requests that ran during that pinLsAll
    ePc,           \* position of the indirect computation run step by step
    eRoots,        \* recursive keys the loop of line 408 has not reached yet
    eStack,        \* the EnumerateChildren calls in progress: links left
    eSet,          \* set of line 407
    eCount         \* GetLinks calls made per identifier

addVars == <<pc, showProgress, recursive, gcLock, lockCount, unlockCount, gc,
             cancelled, cancelMid, pinState, progress, wpc, chClosed, rpc,
             pending, tick, tickerOn, ticks, out, outClosed, errCount,
             resErr, resOut>>
pinVars == <<directKeys, recursiveKeys>>
stepVars == <<lsPc, resultKeys, lsSerial, lsOverlap>>
enumVars == <<ePc, eRoots, eStack, eSet, eCount>>
lsVars == <<links, missing, lsType, lsKeys, lsErr, lsArgs, lsErrAt, stepVars,
           enumVars>>
vars == <<addVars, pinVars, lsVars>>

\* ------------------------------------------------------------ AddPinOutput
Snapshot(n) == [kind |-> "progress", n |-> n]
PinsOut == [kind |-> "pins", n |-> 0]
NoOut == [kind |-> "none", n |-> 0]

\* The snapshots among the received values, in order.
Snapshots(s) == SelectSeq(s, LAMBDA ev : ev.kind = "progress")
NumSnapshots(s) == Len(Snapshots(s))
NumResults(s) == Len(SelectSeq(s, LAMBDA ev : ev.kind = "pins"))

\* ------------------------------------------------------------------- Init
\* make(map[string]RefKeyObject)
EmptyKeys == [c \in {} |-> "none"]

\* No request has started and nothing was listed.
InitIdle ==
    /\ pc = "getnode"
    /\ showProgress = FALSE
    /\ recursive = TRUE
    /\ gcLock = 0
    /\ lockCount = 0
    /\ unlockCount = 0
    /\ gc = FALSE
    /\ cancelled = FALSE
    /\ cancelMid = FALSE
    /\ pinState = "idle"
    /\ progress = 0
    /\ wpc = "idle"
    /\ chClosed = FALSE
    /\ rpc = "idle"
    /\ pending = NoOut
    /\ tick = FALSE
    /\ tickerOn = FALSE
    /\ ticks = 0
    /\ out = <<>>
    /\ outClosed = FALSE
    /\ errCount = 0
    /\ resErr = "none"
    /\ resOut = "none"
    /\ lsType = "none"
    /\ lsKeys = EmptyKeys
    /\ lsErr = FALSE
    /\ lsArgs = <<>>
    /\ lsErrAt = 0
    /\ lsPc = "idle"
    /\ resultKeys = EmptyKeys
    /\ lsSerial = {}
    /\ lsOverlap = 0
    /\ ePc = "idle"
    /\ eRoots = {}
    /\ eStack = <<>>
    /\ eSet = {}
    /\ eCount = [c \in Cids |-> 0]

\* The request has not started; nothing is pinned and nothing was listed.
InitRequest ==
    /\ InitIdle
    /\ directKeys = {}
    /\ recursiveKeys = {}

Init ==
    /\ InitRequest
    /\ links = [c \in Cids |-> {}]
    /\ missing = {}

\* res.SetError(err, cmdsutil.ErrNormal)
SetError(err) ==
    /\ errCount' = errCount + 1
    /\ resErr' = err

\* ------------------------------------------------------- addPinCmd.Run
\* lines 58-62: GetNode; on error the handler returns before taking the lock.
RunGetNode ==
    /\ pc = "getnode"
    /\ \E nodeErr \in BOOLEAN :
         IF nodeErr
         THEN /\ SetError("node")
              /\ pc' = "returned"
         ELSE /\ pc' = "lock"
              /\ UNCHANGED <<errCount, resErr>>
    /\ UNCHANGED <<showProgress, recursive, gcLock, lockCount, unlockCount, gc,
                   cancelled, cancelMid, pinState, progress, wpc, chClosed,
                   rpc, pending, tick, tickerOn, ticks, out, outClosed, resOut,
                   pinVars, lsVars>>

\* line 64: the operand of defer, n.Blockstore.PinLock(), is evaluated here;
\* it blocks while the garbage collector holds the lock.
RunPinLock ==
    /\ pc = "lock"
    /\ ~gc
    /\ gcLock' = gcLock + 1
    /\ lockCount' = lockCount + 1
    /\ pc' = "options"
    /\ UNCHANGED <<showProgress, recursive, unlockCount, gc, cancelled,
                   cancelMid, pinState, progress, wpc, chClosed, rpc, pending,
                   tick, tickerOn, ticks, out, outClosed, errCount, resErr,
                   resOut, pinVars, lsVars>>

\* A variant of RunOptions whose option-error path returns without running
\* the deferred Unlock.
RunOptionsNoUnlock ==
    /\ pc = "options"
    /\ \E optErr \in BOOLEAN, rec \in BOOLEAN, prog \in BOOLEAN :
         IF optErr
         THEN /\ SetError("option")
              /\ pc' = "returned"
              /\ UNCHANGED <<showProgress, recursive, pinState>>
         ELSE /\ recursive' = rec
              /\ showProgress' = prog
              /\ IF prog
                 THEN /\ pc' = "spawn"
                      /\ UNCHANGED pinState
                 ELSE /\ pc' = "syncpin"
                      /\ pinState' = "running"
              /\ UNCHANGED <<errCount, resErr>>
    /\ UNCHANGED <<gcLock, lockCount, unlockCount, gc, cancelled, cancelMid,
                   progress, wpc, chClosed, rpc, pending, tick, tickerOn,
                   ticks, out, outClosed, resOut, pinVars, lsVars>>

\* lines 67-75: read the options; an option error returns (through the
\* deferred Unlock); without "progress" the handler calls corerepo.Pin itself.
RunOptions ==
    /\ pc = "options"
    /\ \E optErr \in BOOLEAN, rec \in BOOLEAN, prog \in BOOLEAN :
         IF optErr
         THEN /\ SetError("option")
              /\ pc' = "unlock"
              /\ UNCHANGED <<showProgress, recursive, pinState>>
         ELSE /\ recursive' = rec
              /\ showProgress' = prog
              /\ IF prog
                 THEN /\ pc' = "spawn"
                      /\ UNCHANGED pinState
                 ELSE /\ pc' = "syncpin"
                      /\ pinState' = "running"
              /\ UNCHANGED <<errCount, resErr>>
    /\ UNCHANGED <<gcLock, lockCount, unlockCount, gc, cancelled, cancelMid,
                   progress, wpc, chClosed, rpc, pending, tick, tickerOn,
                   ticks, out, outClosed, resOut, pinVars, lsVars>>

\* lines 75-81: corerepo.Pin returned to the handler in synchronous mode.
RunSyncDone ==
    /\ pc = "syncpin"
    /\ pinState \in {"ok", "failed", "cancelled"}
    /\ IF pinState = "ok"
       THEN /\ resOut' = "pins"
            /\ UNCHANGED <<errCount, resErr>>
       ELSE /\ SetError(IF pinState = "failed" THEN "fetch" ELSE "cancelled")
            /\ UNCHANGED resOut
    /\ pc' = "unlock"
    /\ UNCHANGED <<showProgress, recursive, gcLock, lockCount, unlockCount, gc,
                   cancelled, cancelMid, pinState, progress, wpc, chClosed,
                   rpc, pending, tick, tickerOn, ticks, out, outClosed,
                   pinVars, lsVars>>

\* lines 84-122: create the tracker and the channels, start the worker and
\* the relay, hand the output channel to the response; then Run returns.
RunSpawn ==
    /\ pc = "spawn"
    /\ progress' = 0
    /\ wpc' = "pin"
    /\ pinState' = "running"
    /\ rpc' = "start"
    /\ resOut' = "chan"
    /\ pc' = "unlock"
    /\ UNCHANGED <<showProgress, recursive, gcLock, lockCount, unlockCount, gc,
                   cancelled, cancelMid, chClosed, pending, tick, tickerOn,
                   ticks, out, outClosed, errCount, resErr, pinVars, lsVars>>

\* line 64: the deferred Unlock runs when Run returns.
RunUnlock ==
    /\ pc = "unlock"
    /\ gcLock' = gcLock - 1
    /\ unlockCount' = unlockCount + 1
    /\ pc' = "returned"
    /\ UNCHANGED <<showProgress, recursive, lockCount, gc, cancelled,
                   cancelMid, pinState, progress, wpc, chClosed, rpc, pending,
                   tick, tickerOn, ticks, out, outClosed, errCount, resErr,
                   resOut, pinVars, lsVars>>

\* ---------------------------------------------------------- corerepo.Pin
\* corerepo.Pin(n, ctx, paths, recursive) runs in the handler (synchronous
\* mode) or in the worker (streaming mode).  It checks the context at each
\* fetch boundary; a step is one boundary.

\* The context is done at a boundary: Pin returns ctx.Err().
PinCancelled ==
    /\ pinState = "running"
    /\ cancelled
    /\ pinState' = "cancelled"
    /\ UNCHANGED <<pc, showProgress, recursive, gcLock, lockCount, unlockCount,
                   gc, cancelled, cancelMid, progress, wpc, chClosed, rpc,
                   pending, tick, tickerOn, ticks, out, outClosed, errCount,
                   resErr, resOut, pinVars, lsVars>>

\* One node is fetched; the ProgressTracker derived into ctx is incremented.
PinFetch ==
    /\ pinState = "running"
    /\ ~cancelled
    /\ showProgress
    /\ progress < MaxProgress
    /\ progress' = progress + 1
    /\ UNCHANGED <<pc, showProgress, recursive, gcLock, lockCount, unlockCount,
                   gc, cancelled, cancelMid, pinState, wpc, chClosed, rpc,
                   pending, tick, tickerOn, ticks, out, outClosed, errCount,
                   resErr, resOut, pinVars, lsVars>>

\* A path does not resolve or a node cannot be fetched: Pin returns the error.
PinFail ==
    /\ pinState = "running"
    /\ ~cancelled
    /\ pinState' = "failed"
    /\ UNCHANGED <<pc, showProgress, recursive, gcLock, lockCount, unlockCount,
                   gc, cancelled, cancelMid, progress, wpc, chClosed, rpc,
                   pending, tick, tickerOn, ticks, out, outClosed, errCount,
                   resErr, resOut, pinVars, lsVars>>

\* Everything is fetched: the pin state is mutated and Pin returns the roots.
PinDone ==
    /\ pinState = "running"
    /\ ~cancelled
    /\ pinState' = "ok"
    /\ IF recursive
       THEN /\ recursiveKeys' = recursiveKeys \cup {Root}
            /\ UNCHANGED directKeys
       ELSE /\ directKeys' = directKeys \cup {Root}
            /\ UNCHANGED recursiveKeys
    /\ UNCHANGED <<pc, showProgress, recursive, gcLock, lockCount, unlockCount,
                   gc, cancelled, cancelMid, progress, wpc, chClosed, rpc,
                   pending, tick, tickerOn, ticks, out, outClosed, errCount,
                   resErr, resOut, lsVars>>

\* ------------------------------------------------- worker, lines 88-96
\* lines 90-93: Pin returned an error; the worker records it on the response.
WorkerSetError ==
    /\ wpc = "pin"
    /\ pinState \in {"failed", "cancelled"}
    /\ SetError(IF pinState = "failed" THEN "fetch" ELSE "cancelled")
    /\ wpc' = "close"
    /\ UNCHANGED <<pc, showProgress, recursive, gcLock, lockCount, unlockCount,
                   gc, cancelled, cancelMid, pinState, progress, chClosed, rpc,
                   pending, tick, tickerOn, ticks, out, outClosed, resOut,
                   pinVars, lsVars>>

\* line 95: Pin succeeded; the worker blocks on the unbuffered send ch <- added
\* until the relay receives (RelayRecvVal).
WorkerSend ==
    /\ wpc = "pin"
    /\ pinState = "ok"
    /\ wpc' = "send"
    /\ UNCHANGED <<pc, showProgress, recursive, gcLock, lockCount, unlockCount,
                   gc, cancelled, cancelMid, pinState, progress, chClosed, rpc,
                   pending, tick, tickerOn, ticks, out, outClosed, errCount,
                   resErr, resOut, pinVars, lsVars>>

\* line 89: the deferred close(ch) runs when the worker returns.
WorkerClose ==
    /\ wpc = "close"
    /\ chClosed' = TRUE
    /\ wpc' = "done"
    /\ UNCHANGED <<pc, showProgress, recursive, gcLock, lockCount, unlockCount,
                   gc, cancelled, cancelMid, pinState, progress, rpc, pending,
                   tick, tickerOn, ticks, out, outClosed, errCount, resErr,
                   resOut, pinVars, lsVars>>

\* -------------------------------------------------- relay, lines 99-122
\* line 100: the relay creates the 500 ms ticker and enters the loop.
RelayStart ==
    /\ rpc = "start"
    /\ tickerOn' = TRUE
    /\ rpc' = "select"
    /\ UNCHANGED <<pc, showProgress, recursive, gcLock, lockCount, unlockCount,
                   gc, cancelled, cancelMid, pinState, progress, wpc, chClosed,
                   pending, tick, ticks, out, outClosed, errCount, resErr,
                   resOut, pinVars, lsVars>>

\* line 105, ok = true: select takes the worker's value.
RelayRecvVal ==
    /\ rpc = "select"
    /\ wpc = "send"
    /\ wpc' = "close"
    /\ rpc' = "flush"
    /\ UNCHANGED <<pc, showProgress, recursive, gcLock, lockCount, unlockCount,
                   gc, cancelled, cancelMid, pinState, progress, chClosed,
                   pending, tick, tickerOn, ticks, out, outClosed, errCount,
                   resErr, resOut, pinVars, lsVars>>

\* lines 105-109, ok = false: ch is closed, the worker has set the error; the
\* relay returns: close(out) and ticker.Stop() run deferred.
RelayRecvClosed ==
    /\ rpc = "select"
    /\ chClosed
    /\ rpc' = "done"
    /\ outClosed' = TRUE
    /\ tickerOn' = FALSE
    /\ UNCHANGED <<pc, showProgress, recursive, gcLock, lockCount, unlockCount,
                   gc, cancelled, cancelMid, pinState, progress, wpc, chClosed,
                   pending, tick, ticks, out, errCount, resErr, resOut,
                   pinVars, lsVars>>

\* A variant of RelayFlush that sends the number of pinned roots, len(val),
\* as the final progress value.
RelayFlushLen ==
    /\ rpc = "flush"
    /\ IF progress # 0
       THEN /\ pending' = Snapshot(1)
            /\ rpc' = "sendflush"
       ELSE /\ pending' = PinsOut
            /\ rpc' = "sendresult"
    /\ UNCHANGED <<pc, showProgress, recursive, gcLock, lockCount, unlockCount,
                   gc, cancelled, cancelMid, pinState, progress, wpc, chClosed,
                   tick, tickerOn, ticks, out, outClosed, errCount, resErr,
                   resOut, pinVars, lsVars>>

\* A variant of RelayFlush without the pv != 0 test.
RelayFlushAlways ==
    /\ rpc = "flush"
    /\ pending' = Snapshot(progress)
    /\ rpc' = "sendflush"
    /\ UNCHANGED <<pc, showProgress, recursive, gcLock, lockCount, unlockCount,
                   gc, cancelled, cancelMid, pinState, progress, wpc, chClosed,
                   tick, tickerOn, ticks, out, outClosed, errCount, resErr,
                   resOut, pinVars, lsVars>>

\* lines 110-113: with a nonzero tracker value the relay first sends a last
\* snapshot, then the pins.  Pin has returned, the value no longer changes.
RelayFlush ==
    /\ rpc = "flush"
    /\ IF progress # 0
       THEN /\ pending' = Snapshot(progress)
            /\ rpc' = "sendflush"
       ELSE /\ pending' = PinsOut
            /\ rpc' = "sendresult"
    /\ UNCHANGED <<pc, showProgress, recursive, gcLock, lockCount, unlockCount,
                   gc, cancelled, cancelMid, pinState, progress, wpc, chClosed,
                   tick, tickerOn, ticks, out, outClosed, errCount, resErr,
                   resOut, pinVars, lsVars>>

\* lines 115-116: select takes a tick; the relay evaluates v.Value() and
\* blocks sending the snapshot on out.
RelayTick ==
    /\ rpc = "select"
    /\ tick
    /\ tick' = FALSE
    /\ pending' = Snapshot(progress)
    /\ rpc' = "sendtick"
    /\ UNCHANGED <<pc, showProgress, recursive, gcLock, lockCount, unlockCount,
                   gc, cancelled, cancelMid, pinState, progress, wpc, chClosed,
                   tickerOn, ticks, out, outClosed, errCount, resErr, resOut,
                   pinVars, lsVars>>

\* A variant of RelayCtxDone that returns without recording the error.
RelayCtxDoneSilent ==
    /\ rpc = "select"
    /\ cancelled
    /\ rpc' = "done"
    /\ outClosed' = TRUE
    /\ tickerOn' = FALSE
    /\ UNCHANGED <<pc, showProgress, recursive, gcLock, lockCount, unlockCount,
                   gc, cancelled, cancelMid, pinState, progress, wpc, chClosed,
                   pending, tick, ticks, out, errCount, resErr, resOut,
                   pinVars, lsVars>>

\* lines 117-119: select takes ctx.Done(); the relay records ctx.Err() and
\* returns.
RelayCtxDone ==
    /\ rpc = "select"
    /\ cancelled
    /\ SetError("cancelled")
    /\ rpc' = "done"
    /\ outClosed' = TRUE
    /\ tickerOn' = FALSE
    /\ UNCHANGED <<pc, showProgress, recursive, gcLock, lockCount, unlockCount,
                   gc, cancelled, cancelMid, pinState, progress, wpc, chClosed,
                   pending, tick, ticks, out, resOut, pinVars, lsVars>>

\* The consumer of the response receives the value the relay is blocked
\* sending on out (lines 111, 113, 116); the relay moves on.
ConsumerRecv ==
    /\ rpc \in {"sendtick", "sendflush", "sendresult"}
    /\ out' = Append(out, pending)
    /\ IF rpc = "sendtick"
       THEN /\ rpc' = "select"
            /\ pending' = NoOut
            /\ UNCHANGED <<outClosed, tickerOn>>
       ELSE IF rpc = "sendflush"
       THEN /\ rpc' = "sendresult"
            /\ pending' = PinsOut
            /\ UNCHANGED <<outClosed, tickerOn>>
       ELSE /\ rpc' = "done"
            /\ pending' = NoOut
            /\ outClosed' = TRUE
            /\ tickerOn' = FALSE
    /\ UNCHANGED <<pc, showProgress, recursive, gcLock, lockCount, unlockCount,
                   gc, cancelled, cancelMid, pinState, progress, wpc, chClosed,
                   tick, ticks, errCount, resErr, resOut, pinVars, lsVars>>

\* ------------------------------------------------------------ environment
\* time.Ticker: every 500 ms a tick is put in ticker.C, which holds one tick.
Tick ==
    /\ tickerOn
    /\ ~tick
    /\ ticks < MaxTicks
    /\ tick' = TRUE
    /\ ticks' = ticks + 1
    /\ UNCHANGED <<pc, showProgress, recursive, gcLock, lockCount, unlockCount,
                   gc, cancelled, cancelMid, pinState, progress, wpc, chClosed,
                   rpc, pending, tickerOn, out, outClosed, errCount, resErr,
                   resOut, pinVars, lsVars>>

\* The request context is cancelled.
Cancel ==
    /\ ~cancelled
    /\ cancelled' = TRUE
    /\ cancelMid' = (pinState \in {"idle", "running"})
    /\ UNCHANGED <<pc, showProgress, recursive, gcLock, lockCount, unlockCount,
                   gc, pinState, progress, wpc, chClosed, rpc, pending, tick,
                   tickerOn, ticks, out, outClosed, errCount, resErr, resOut,
                   pinVars, lsVars>>

\* The garbage collector takes the GC lock when no pin lock is held.
GCStart ==
    /\ ~gc
    /\ gcLock = 0
    /\ gc' = TRUE
    /\ UNCHANGED <<pc, showProgress, recursive, gcLock, lockCount, unlockCount,
                   cancelled, cancelMid, pinState, progress, wpc, chClosed,
                   rpc, pending, tick, tickerOn, ticks, out, outClosed,
                   errCount, resErr, resOut, pinVars, lsVars>>

\* The garbage collector finishes its sweep and releases the lock.
GCEnd ==
    /\ gc
    /\ gc' = FALSE
    /\ UNCHANGED <<pc, showProgress, recursive, gcLock, lockCount, unlockCount,
                   cancelled, cancelMid, pinState, progress, wpc, chClosed,
                   rpc, pending, tick, tickerOn, ticks, out, outClosed,
                   errCount, resErr, resOut, pinVars, lsVars>>

Next ==
    \/ RunGetNode
    \/ RunPinLock
    \/ RunOptions
    \/ RunSyncDone
    \/ RunSpawn
    \/ RunUnlock
    \/ PinCancelled
    \/ PinFetch
    \/ PinFail
    \/ PinDone
    \/ WorkerSetError
    \/ WorkerSend
    \/ WorkerClose
    \/ RelayStart
    \/ RelayRecvVal
    \/ RelayRecvClosed
    \/ RelayFlush
    \/ RelayTick
    \/ RelayCtxDone
    \/ ConsumerRecv
    \/ Tick
    \/ Cancel
    \/ GCStart
    \/ GCEnd

Spec == Init /\ [][Next]_vars

\* ================================================================ pin ls
\* Every link graph on Cids; either every node can be fetched or one cannot
\* (the graphs and the pin states are closed under renaming, so which one
\* does not matter).
InitLs ==
    /\ InitRequest
    /\ links \in [Cids -> SUBSET Cids]
    /\ missing \in {{}, {"c"}}

\* The response of a pin or unpin request holds no listing.
NoListing ==
    /\ lsType' = "none"
    /\ lsKeys' = EmptyKeys
    /\ lsErr' = FALSE
    /\ lsArgs' = <<>>
    /\ lsErrAt' = 0
    /\ UNCHANGED <<stepVars, enumVars>>

\* Pinning.Pin through corerepo.Pin: the direct or the recursive record of
\* c is set; setting a record that is set changes nothing.
PinAdd ==
    \E c \in Cids, rec \in BOOLEAN :
        /\ Cardinality(directKeys) + Cardinality(recursiveKeys) < MaxPins
        /\ IF rec
           THEN /\ recursiveKeys' = recursiveKeys \cup {c}
                /\ UNCHANGED directKeys
           ELSE /\ directKeys' = directKeys \cup {c}
                /\ UNCHANGED recursiveKeys
        /\ NoListing
        /\ UNCHANGED <<addVars, links, missing>>

\* rmPinCmd.Run, lines 182-203, through corerepo.Unpin: the record is
\* cleared; unpinning what is not pinned is an error and changes nothing.
PinRemove ==
    \E c \in Cids, rec \in BOOLEAN :
        /\ IF rec
           THEN /\ recursiveKeys' = recursiveKeys \ {c}
                /\ UNCHANGED directKeys
           ELSE /\ directKeys' = directKeys \ {c}
                /\ UNCHANGED recursiveKeys
        /\ NoListing
        /\ UNCHANGED <<addVars, links, missing>>

\* dag.EnumerateChildren(ctx, getLinks, root, visit) with visit = set.Visit:
\* the links of c are fetched; each child that Visit adds to the set is
\* enumerated in turn.  st = [err, set].
RECURSIVE EnumerateChildren(_, _)
RECURSIVE EnumerateLinks(_, _)
EnumerateChildren(c, st) ==
    IF c \in missing
    THEN [st EXCEPT !.err = TRUE]
    ELSE EnumerateLinks(links[c], st)

EnumerateLinks(ls, st) ==
    IF ls = {} \/ st.err
    THEN st
    ELSE LET k == CHOOSE x \in ls : TRUE
             st1 == IF k \in st.set
                    THEN st
                    ELSE EnumerateChildren(k, [st EXCEPT !.set = @ \cup {k}])
         IN  EnumerateLinks(ls \ {k}, st1)

\* A variant of EnumerateRoots whose loop ends after the first recursive key.
EnumerateRootsFirst(roots, st) ==
    IF roots = {} \/ st.err
    THEN st
    ELSE EnumerateChildren(CHOOSE x \in roots : TRUE, st)

\* lines 407-413: one set shared by the loop over the recursive keys; the
\* first error ends the loop.
RECURSIVE EnumerateRoots(_, _)
EnumerateRoots(roots, st) ==
    IF roots = {} \/ st.err
    THEN st
    ELSE LET k == CHOOSE x \in roots : TRUE
         IN  EnumerateRoots(roots \ {k}, EnumerateChildren(k, st))

\* lines 395-401: keys[c.String()] = RefKeyObject{Type: typeStr} for every c;
\* a key already in the map gets the new type.
AddToResultKeys(keys, keyList, typeStr) ==
    [c \in DOMAIN keys \cup keyList |->
        IF c \in keyList THEN typeStr ELSE keys[c]]

\* A variant of pinLsAll that leaves the loop on an error and goes on with
\* what the set holds.
pinLsAllSwallow(typeStr) ==
    LET k1 == IF typeStr \in {"direct", "all"}
              THEN AddToResultKeys(EmptyKeys, directKeys, "direct")
              ELSE EmptyKeys
        st == IF typeStr \in {"indirect", "all"}
              THEN EnumerateRoots(recursiveKeys, [err |-> FALSE, set |-> {}])
              ELSE [err |-> FALSE, set |-> {}]
        k2 == AddToResultKeys(k1, st.set, "indirect")
        k3 == IF typeStr \in {"recursive", "all"}
              THEN AddToResultKeys(k2, recursiveKeys, "recursive")
              ELSE k2
    IN  [err |-> FALSE, keys |-> k3]

\* lines 391-421: pinLsAll returns [err, keys].
pinLsAll(typeStr) ==
    LET k1 == IF typeStr \in {"direct", "all"}
              THEN AddToResultKeys(EmptyKeys, directKeys, "direct")
              ELSE EmptyKeys
        st == IF typeStr \in {"indirect", "all"}
              THEN EnumerateRoots(recursiveKeys, [err |-> FALSE, set |-> {}])
              ELSE [err |-> FALSE, set |-> {}]
        k2 == AddToResultKeys(k1, st.set, "indirect")
        k3 == IF typeStr \in {"recursive", "all"}
              THEN AddToResultKeys(k2, recursiveKeys, "recursive")
              ELSE k2
    IN  IF st.err
        THEN [err |-> TRUE, keys |-> EmptyKeys]
        ELSE [err |-> FALSE, keys |-> k3]

LsTypes == {"all", "direct", "indirect", "recursive"}

\* listPinCmd.Run without arguments, lines 276-310: an unknown type is
\* rejected, otherwise the response gets the keys or the error of pinLsAll.
\* Requests are issued one after the other, each with a fresh response.
ListAll ==
    \E typeStr \in LsTypes \cup {"bogus"} :
        /\ lsType = "none"
        /\ lsType' = typeStr
        /\ lsArgs' = <<>>
        /\ lsErrAt' = 0
        /\ IF typeStr \notin LsTypes
           THEN /\ lsErr' = TRUE
                /\ lsKeys' = EmptyKeys
           ELSE LET r == pinLsAll(typeStr)
                IN  /\ lsErr' = r.err
                    /\ lsKeys' = r.keys
        /\ UNCHANGED <<addVars, pinVars, links, missing, stepVars, enumVars>>

\* The client has read the response of the listing; the next request gets a
\* response of its own.
LsRespond ==
    /\ lsType # "none"
    /\ NoListing
    /\ UNCHANGED <<addVars, pinVars, links, missing>>

NextLs ==
    \/ PinAdd
    \/ PinRemove
    \/ ListAll
    \/ LsRespond

SpecLs == InitLs /\ [][NextLs]_vars

\* ------------------------------------------------- pin ls with arguments
\* The paths of the model: one per identifier and one that does not resolve.
Paths == Cids \cup {"nopath"}

\* The argument lists of the model: one or two paths.
ArgLists == {<<p>> : p \in Paths} \cup {<<p, q>> : p \in Paths, q \in Paths}

\* lines 359-367: path.ParsePath and core.ResolveToCid.
ResolveToCid(p) ==
    IF p \in Cids THEN [err |-> FALSE, cid |-> p] ELSE [err |-> TRUE, cid |-> p]

\* n.Pinning.IsPinnedWithType(c, mode): Recursive before Direct before
\* Indirect; the indirect check computes the closure of all recursive keys
\* and fails when that computation fails.
IsPinnedWithType(c, mode) ==
    IF mode \in {"recursive", "all"} /\ c \in recursiveKeys
    THEN [err |-> FALSE, pinned |-> TRUE, pinType |-> "recursive"]
    ELSE IF mode = "recursive"
    THEN [err |-> FALSE, pinned |-> FALSE, pinType |-> ""]
    ELSE IF mode \in {"direct", "all"} /\ c \in directKeys
    THEN [err |-> FALSE, pinned |-> TRUE, pinType |-> "direct"]
    ELSE IF mode = "direct"
    THEN [err |-> FALSE, pinned |-> FALSE, pinType |-> ""]
    ELSE LET st == EnumerateRoots(recursiveKeys, [err |-> FALSE, set |-> {}])
         IN  IF st.err
             THEN [err |-> TRUE, pinned |-> FALSE, pinType |-> ""]
             ELSE IF c \in st.set
             THEN [err |-> FALSE, pinned |-> TRUE, pinType |-> "indirect"]
             ELSE [err |-> FALSE, pinned |-> FALSE, pinType |-> ""]

\* "indirect through " + pinType, line 381.
IndirectThrough ==
    [c \in Cids |-> CASE c = "a" -> "indirect through a"
                      [] c = "b" -> "indirect through b"
                      [] OTHER   -> "indirect through c"]

\* lines 378-382: a pin type that is not a category names the recursive key
\* the identifier is pinned through.
PinTypeLabel(pinType) ==
    IF pinType \in {"direct", "indirect", "recursive", "internal"}
    THEN pinType
    ELSE IndirectThrough[pinType]

\* A variant of pinLsKeysStep that leaves out a path that is not pinned and
\* goes on.
pinLsKeysStepSkip(p, mode, ks) ==
    LET r == ResolveToCid(p)
        q == IsPinnedWithType(r.cid, mode)
    IN  IF r.err \/ q.err
        THEN [err |-> TRUE, keys |-> EmptyKeys]
        ELSE IF ~q.pinned
        THEN [err |-> FALSE, keys |-> ks]
        ELSE [err |-> FALSE,
              keys |-> AddToResultKeys(ks, {r.cid}, PinTypeLabel(q.pinType))]

\* lines 358-386, one round of the loop: the path is resolved and checked;
\* any error and "not pinned" return; otherwise the key gets its type.
pinLsKeysStep(p, mode, ks) ==
    LET r == ResolveToCid(p)
        q == IsPinnedWithType(r.cid, mode)
    IN  IF r.err \/ q.err \/ ~q.pinned
        THEN [err |-> TRUE, keys |-> EmptyKeys]
        ELSE [err |-> FALSE,
              keys |-> AddToResultKeys(ks, {r.cid}, PinTypeLabel(q.pinType))]

\* lines 349-389: pinLsKeys returns [err, at, keys]; at is the position of
\* the path that made it return an error.
RECURSIVE pinLsKeysFrom(_, _, _, _)
pinLsKeysFrom(args, i, mode, ks) ==
    IF i > Len(args)
    THEN [err |-> FALSE, at |-> 0, keys |-> ks]
    ELSE LET r == pinLsKeysStep(args[i], mode, ks)
         IN  IF r.err
             THEN [err |-> TRUE, at |-> i, keys |-> EmptyKeys]
             ELSE pinLsKeysFrom(args, i + 1, mode, r.keys)

pinLsKeys(args, typeStr) ==
    IF typeStr \notin LsTypes
    THEN [err |-> TRUE, at |-> 0, keys |-> EmptyKeys]
    ELSE pinLsKeysFrom(args, 1, typeStr, EmptyKeys)

\* listPinCmd.Run with arguments, lines 276-310.
ListKeys ==
    \E args \in ArgLists, typeStr \in LsTypes \cup {"bogus"} :
        /\ lsType = "none"
        /\ lsType' = typeStr
        /\ lsArgs' = args
        /\ LET r == pinLsKeys(args, typeStr)
           IN  /\ lsErr' = r.err
               /\ lsErrAt' = r.at
               /\ lsKeys' = r.keys
        /\ UNCHANGED <<addVars, pinVars, links, missing, stepVars, enumVars>>

\* The link graphs in which every identifier has at most one link; either
\* every node can be fetched or one cannot.
InitKeys ==
    /\ InitRequest
    /\ links \in {g \in [Cids -> SUBSET Cids] :
                    \A c \in Cids : Cardinality(g[c]) <= 1}
    /\ missing \in {{}, {"c"}}

NextKeys ==
    \/ PinAdd
    \/ PinRemove
    \/ ListAll
    \/ ListKeys
    \/ LsRespond

SpecKeys == InitKeys /\ [][NextKeys]_vars

\* ------------------------------- the indirect computation, step by step
\* "pin ls --type=indirect" without arguments, with every GetLinks call of
\* lines 406-415 a step of its own.  The recursive keys are read in any
\* order and the links of a node are visited in any order.

\* Any set of recursive keys over any link graph.
InitEnum ==
    /\ InitIdle
    /\ directKeys = {}
    /\ recursiveKeys \in SUBSET Cids
    /\ links \in [Cids -> SUBSET Cids]
    /\ missing \in {{}, {"c"}}

\* The request fails with the error of GetLinks, lines 410-412 and 305-306.
EnumFail ==
    /\ ePc' = "err"
    /\ lsType' = "indirect"
    /\ lsErr' = TRUE
    /\ lsKeys' = EmptyKeys
    /\ eStack' = <<>>

\* lines 406-408: set := cid.NewSet(); the loop ranges over RecursiveKeys().
EnumStart ==
    /\ ePc = "idle"
    /\ ePc' = "run"
    /\ eRoots' = recursiveKeys
    /\ eSet' = {}
    /\ UNCHANGED <<addVars, pinVars, links, missing, lsType, lsKeys, lsErr,
                   lsArgs, lsErrAt, stepVars, eStack, eCount>>

\* lines 408-409: the next recursive key k is handed to EnumerateChildren,
\* which fetches the links of k.
EnumRoot ==
    /\ ePc = "run"
    /\ eStack = <<>>
    /\ \E k \in eRoots :
         /\ eRoots' = eRoots \ {k}
         /\ eCount' = [eCount EXCEPT ![k] = @ + 1]
         /\ IF k \in missing
            THEN EnumFail
            ELSE /\ eStack' = <<links[k]>>
                 /\ UNCHANGED <<ePc, lsType, lsErr, lsKeys>>
    /\ UNCHANGED <<addVars, pinVars, links, missing, lsArgs, lsErrAt,
                   stepVars, eSet>>

\* dag.EnumerateChildren, one link c of the node on top: when set.Visit(c)
\* adds c, EnumerateChildren is called on c and fetches its links.
EnumVisit ==
    /\ ePc = "run"
    /\ eStack # <<>>
    /\ \E c \in Head(eStack) :
         LET rest == <<Head(eStack) \ {c}>> \o Tail(eStack)
         IN  IF c \in eSet
             THEN /\ eStack' = rest
                  /\ UNCHANGED <<ePc, eSet, eCount, lsType, lsErr, lsKeys>>
             ELSE /\ eSet' = eSet \cup {c}
                  /\ eCount' = [eCount EXCEPT ![c] = @ + 1]
                  /\ IF c \in missing
                     THEN EnumFail
                     ELSE /\ eStack' = <<links[c]>> \o rest
                          /\ UNCHANGED <<ePc, lsType, lsErr, lsKeys>>
    /\ UNCHANGED <<addVars, pinVars, links, missing, lsArgs, lsErrAt,
                   stepVars, eRoots>>

\* dag.EnumerateChildren: every link of the node on top is done; the call
\* returns.
EnumReturn ==
    /\ ePc = "run"
    /\ eStack # <<>>
    /\ Head(eStack) = {}
    /\ eStack' = Tail(eStack)
    /\ UNCHANGED <<addVars, pinVars, links, missing, lsType, lsKeys, lsErr,
                   lsArgs, lsErrAt, stepVars, ePc, eRoots, eSet, eCount>>

\* A variant of EnumFinish that takes the recursive keys out of the set
\* before labelling it.
EnumFinishNoRoots ==
    /\ ePc = "run"
    /\ eStack = <<>>
    /\ eRoots = {}
    /\ ePc' = "done"
    /\ lsType' = "indirect"
    /\ lsErr' = FALSE
    /\ lsKeys' = AddToResultKeys(EmptyKeys, eSet \ recursiveKeys, "indirect")
    /\ UNCHANGED <<addVars, pinVars, links, missing, lsArgs, lsErrAt,
                   stepVars, eRoots, eStack, eSet, eCount>>

\* lines 414, 420 and 308: the loop is over; the keys of the set are
\* labelled indirect and returned.
EnumFinish ==
    /\ ePc = "run"
    /\ eStack = <<>>
    /\ eRoots = {}
    /\ ePc' = "done"
    /\ lsType' = "indirect"
    /\ lsErr' = FALSE
    /\ lsKeys' = AddToResultKeys(EmptyKeys, eSet, "indirect")
    /\ UNCHANGED <<addVars, pinVars, links, missing, lsArgs, lsErrAt,
                   stepVars, eRoots, eStack, eSet, eCount>>

NextEnum ==
    \/ EnumStart
    \/ EnumRoot
    \/ EnumVisit
    \/ EnumReturn
    \/ EnumFinish

SpecEnum == InitEnum /\ [][NextEnum]_vars

\* The request handler keeps running until it returns.
SpecEnumFair == SpecEnum /\ WF_vars(NextEnum)

\* ----------------------------- a listing that overlaps pin mutations
\* "pin ls" without arguments and with type all, one step for each read of
\* the pinner in pinLsAll.  pinLsAll takes no lock, so "pin add" and
\* "pin rm" requests of other clients run between its steps.  The traversal
\* of lines 406-415 is kept in one step: the steps interleave less than the
\* code does.

\* Any pin state of at most MaxPins records over a graph of out-degree <= 1.
InitConc ==
    /\ InitIdle
    /\ directKeys \in SUBSET Cids
    /\ recursiveKeys \in SUBSET Cids
    /\ Cardinality(directKeys) + Cardinality(recursiveKeys) <= MaxPins
    /\ links \in [Cids -> SUBSET Cids]
    /\ \A c \in Cids : Cardinality(links[c]) <= 1
    /\ missing \in {{}, {"c"}}

\* lines 276-303 and 393: the request is accepted and the map is made.
\* lsSerial collects what a listing of the pin state as a whole would
\* return, here for the state at the start.
ConcStart ==
    /\ lsPc = "idle"
    /\ lsPc' = "direct"
    /\ resultKeys' = EmptyKeys
    /\ lsSerial' = {pinLsAll("all")}
    /\ lsOverlap' = 0
    /\ UNCHANGED <<addVars, pinVars, links, missing, lsType, lsKeys, lsErr,
                   lsArgs, lsErrAt, enumVars>>

\* lines 403-405: DirectKeys() is read and labelled direct.
ConcDirect ==
    /\ lsPc = "direct"
    /\ lsPc' = "indirect"
    /\ resultKeys' = AddToResultKeys(resultKeys, directKeys, "direct")
    /\ UNCHANGED <<addVars, pinVars, links, missing, lsType, lsKeys, lsErr,
                   lsArgs, lsErrAt, lsSerial, lsOverlap, enumVars>>

\* lines 406-415: RecursiveKeys() is read and the children of each key are
\* enumerated into one set, labelled indirect; a failed fetch ends the
\* request with the error, lines 410-412 and 305-306.
ConcIndirect ==
    /\ lsPc = "indirect"
    /\ LET st == EnumerateRoots(recursiveKeys, [err |-> FALSE, set |-> {}])
       IN  IF st.err
           THEN /\ lsPc' = "done"
                /\ lsType' = "all"
                /\ lsErr' = TRUE
                /\ lsKeys' = EmptyKeys
                /\ UNCHANGED resultKeys
           ELSE /\ lsPc' = "recursive"
                /\ resultKeys' = AddToResultKeys(resultKeys, st.set, "indirect")
                /\ UNCHANGED <<lsType, lsErr, lsKeys>>
    /\ UNCHANGED <<addVars, pinVars, links, missing, lsArgs, lsErrAt,
                   lsSerial, lsOverlap, enumVars>>

\* lines 416-420 and 308: RecursiveKeys() is read again and labelled
\* recursive; the map is the output of the request.
ConcRecursive ==
    /\ lsPc = "recursive"
    /\ lsPc' = "done"
    /\ lsType' = "all"
    /\ lsErr' = FALSE
    /\ lsKeys' = AddToResultKeys(resultKeys, recursiveKeys, "recursive")
    /\ resultKeys' = lsKeys'
    /\ UNCHANGED <<addVars, pinVars, links, missing, lsArgs, lsErrAt,
                   lsSerial, lsOverlap, enumVars>>

\* The pin state has changed while the listing runs: the listing of the new
\* state joins lsSerial and the mutation is counted.
ConcMutated ==
    /\ lsPc \in {"direct", "indirect", "recursive"}
    /\ lsOverlap < MaxOverlap
    /\ lsOverlap' = lsOverlap + 1
    /\ UNCHANGED <<addVars, links, missing, lsType, lsKeys, lsErr, lsArgs,
                   lsErrAt, lsPc, resultKeys, enumVars>>
    /\ lsSerial' = lsSerial \cup {pinLsAll("all")'}

\* Pinning.Pin of another request, as in PinAdd, while the listing runs.
ConcPinAdd ==
    \E c \in Cids, rec \in BOOLEAN :
        /\ Cardinality(directKeys) + Cardinality(recursiveKeys) < MaxPins
        /\ IF rec
           THEN /\ recursiveKeys' = recursiveKeys \cup {c}
                /\ UNCHANGED directKeys
           ELSE /\ directKeys' = directKeys \cup {c}
                /\ UNCHANGED recursiveKeys
        /\ ConcMutated

\* rmPinCmd.Run of another request, lines 182-203, as in PinRemove, while
\* the listing runs.
ConcPinRemove ==
    \E c \in Cids, rec \in BOOLEAN :
        /\ IF rec
           THEN /\ recursiveKeys' = recursiveKeys \ {c}
                /\ UNCHANGED directKeys
           ELSE /\ directKeys' = directKeys \ {c}
                /\ UNCHANGED recursiveKeys
        /\ ConcMutated

NextConc ==
    \/ ConcStart
    \/ ConcDirect
    \/ ConcIndirect
    \/ ConcRecursive
    \/ ConcPinAdd
    \/ ConcPinRemove

SpecConc == InitConc /\ [][NextConc]_vars

\* ============================================================ properties
IsPrefix(s, t) == Len(s) <= Len(t) /\ SubSeq(t, 1, Len(s)) = s

\* The values the relay has emitted on out: those the consumer received and
\* the one the relay is blocked sending.
Emitted == IF pending = NoOut THEN out ELSE Append(out, pending)

\* What a fast successful streaming call sends when nothing interrupts it.
FastOutput ==
    IF progress # 0 THEN <<Snapshot(progress), PinsOut>> ELSE <<PinsOut>>

\* C1: while corerepo.Pin of the call is running, in either mode, the pin
\* (no-GC) lock taken at the start of the call is held.
C1_LockHeldWhilePinRuns == pinState = "running" => gcLock > 0

\* C2: the call releases the lock it acquired exactly once on every exit
\* path: never more Unlocks than PinLocks, and once Run has returned the one
\* lock taken is released and no holder is left.
C2_LockReleasedOnce ==
    /\ lockCount <= 1
    /\ unlockCount <= lockCount
    /\ gcLock = lockCount - unlockCount
    /\ pc = "returned" => (unlockCount = lockCount /\ gcLock = 0)

\* A cancelled streaming call whose handler and goroutines have all ended,
\* with its one lock released.
C2_Witness ==
    /\ pc = "returned" /\ showProgress /\ cancelled
    /\ wpc = "done" /\ rpc = "done"
    /\ lockCount = 1 /\ unlockCount = 1 /\ gcLock = 0

\* C3: a closed stream ended with exactly one terminal event: one pins
\* result and no failure, or no result and a failure recorded exactly once.
C3_ExactlyOneTerminal ==
    outClosed =>
        \/ NumResults(out) = 1 /\ errCount = 0
        \/ NumResults(out) = 0 /\ errCount = 1

\* C4: once the pins result was emitted or a failure was recorded on the
\* response of a streaming call, the relay emits nothing more on out.
C4_TerminalIsLast ==
    [][(NumResults(Emitted) > 0 \/ (showProgress /\ errCount > 0))
          => Emitted' = Emitted]_vars

\* C5: once the context is cancelled the relay emits no further progress
\* snapshot (one it was already sending when the context was cancelled does
\* not count).
C5_NoSnapshotAfterCancel ==
    [][cancelled => NumSnapshots(Emitted') = NumSnapshots(Emitted)]_vars

\* C6: a streaming call cancelled before its corerepo.Pin returned delivers
\* no pins result, and its stream ends with the cancellation recorded as the
\* failure.
C6_CancelMidFails ==
    (showProgress /\ cancelMid) =>
        /\ NumResults(out) = 0
        /\ outClosed => (errCount >= 1 /\ resErr = "cancelled")

\* A stream closed after a cancellation that came while Pin had fetched a
\* node and was still running.
C6_Witness ==
    /\ showProgress /\ cancelMid /\ outClosed
    /\ progress > 0
    /\ pinState = "cancelled"

C8_SnapshotsNonzero ==
    \A i \in 1..Len(Emitted) :
        Emitted[i].kind = "progress" => Emitted[i].n # 0

\* C9: the counts of the snapshots the consumer receives are in
\* non-decreasing order.
C9_SnapshotsNonDecreasing ==
    \A i, j \in 1..NumSnapshots(out) :
        i < j => Snapshots(out)[i].n <= Snapshots(out)[j].n

\* Two snapshots were received, the second with a larger count.
C9_Witness ==
    /\ NumSnapshots(out) >= 2
    /\ Snapshots(out)[1].n < Snapshots(out)[2].n

\* The labels under which a listing reports c.
LabelsOf(keys, c) == IF c \in DOMAIN keys THEN {keys[c]} ELSE {}

\* C10: "pin ls --type=all" without arguments reports an identifier pinned
\* both direct and recursive under both labels.
C10_BothLabels ==
    (lsType = "all" /\ ~lsErr) =>
        \A c \in directKeys \cap recursiveKeys :
            LabelsOf(lsKeys, c) = {"direct", "recursive"}

\* C18: the worker is never left blocked on ch <- added after the relay has
\* returned: with the relay gone nothing receives from ch, so the worker
\* would never terminate.
C18_WorkerNotStranded == ~(rpc = "done" /\ wpc = "send")

\* C19: a streaming call whose corerepo.Pin returned successfully ends its
\* stream with the pins result and without a recorded failure.
C19_CompletedPinReported ==
    (showProgress /\ pinState = "ok" /\ outClosed) =>
        (NumResults(out) = 1 /\ errCount = 0)

\* ------------------------------------------------------ link graph facts
\* The least set that holds S and the links of its members.
RECURSIVE ReachFrom(_)
ReachFrom(S) ==
    LET T == S \cup UNION {links[c] : c \in S}
    IN  IF T = S THEN S ELSE ReachFrom(T)

\* The identifiers reachable from some member of roots through one or more
\* links.
Descendants(roots) == ReachFrom(UNION {links[r] : r \in roots})

\* The closure of the recursive keys needs the links of a node that cannot
\* be fetched.
FetchFailure ==
    (recursiveKeys \cup Descendants(recursiveKeys)) \cap missing # {}

\* c is pinned under the filter t.
PinnedUnder(c, t) ==
    \/ t \in {"direct", "all"} /\ c \in directKeys
    \/ t \in {"recursive", "all"} /\ c \in recursiveKeys
    \/ t \in {"indirect", "all"} /\ c \in Descendants(recursiveKeys)

\* The path p makes a listing with filter t fail: it does not resolve, its
\* identifier is not pinned under t, or the check needs the closure of the
\* recursive keys and that closure cannot be computed.
PathFails(p, t) ==
    \/ p \notin Cids
    \/ ~PinnedUnder(p, t)
    \/ /\ FetchFailure
       /\ \/ t = "indirect"
          \/ t = "all" /\ p \notin directKeys \cup recursiveKeys

\* The category a label of a listing stands for.
Category(label) ==
    IF label \in {"direct", "recursive", "internal"} THEN label ELSE "indirect"

\* C11: "pin ls" with paths is all-or-nothing: when some path fails, the
\* request fails with the error of the first failing path in input order and
\* returns no entry; otherwise it returns exactly one entry for every
\* resolved identifier.
C11_AllOrNothing ==
    (lsArgs # <<>> /\ lsType \in LsTypes) =>
        LET failing == {i \in 1..Len(lsArgs) : PathFails(lsArgs[i], lsType)}
        IN  IF failing # {}
            THEN /\ lsErr
                 /\ lsKeys = EmptyKeys
                 /\ lsErrAt \in failing
                 /\ \A i \in failing : lsErrAt <= i
            ELSE /\ ~lsErr
                 /\ DOMAIN lsKeys = {lsArgs[i] : i \in 1..Len(lsArgs)}

\* A listing of two paths that failed on the second, an identifier that is
\* not pinned, after a first path that is pinned.
C11_Witness ==
    /\ Len(lsArgs) = 2 /\ lsType \in LsTypes
    /\ lsArgs[2] \in Cids
    /\ lsErr /\ lsErrAt = 2 /\ lsKeys = EmptyKeys

\* C12: "pin ls --type=indirect" without arguments succeeds exactly when the
\* closure can be fetched, and then returns exactly the identifiers
\* reachable through one or more links from a recursive key, each labelled
\* indirect.
C12_IndirectIsDescendants ==
    (lsType = "indirect" /\ lsArgs = <<>>) =>
        /\ lsErr <=> FetchFailure
        /\ ~lsErr =>
              /\ DOMAIN lsKeys = Descendants(recursiveKeys)
              /\ \A c \in DOMAIN lsKeys : lsKeys[c] = "indirect"

\* The diamond: a recursive key with two links, one of them linking to the
\* other.
C12_Witness ==
    /\ lsType = "indirect" /\ lsArgs = <<>> /\ ~lsErr
    /\ recursiveKeys = {"a"}
    /\ links = [c \in Cids |-> CASE c = "a" -> {"b", "c"}
                                 [] c = "b" -> {"c"}
                                 [] OTHER   -> {}]
    /\ DOMAIN lsKeys = {"b", "c"}

\* C13: "pin ls --type=indirect" labels no recursive key indirect.
C13_NoRootIndirect ==
    (lsType = "indirect" /\ lsArgs = <<>> /\ ~lsErr) =>
        DOMAIN lsKeys \cap recursiveKeys = {}

\* C14: when a link fetch fails during the indirect computation, "pin ls"
\* with type indirect or all returns the error and no entry.
C14_FetchFailureFailsAll ==
    (lsType \in {"indirect", "all"} /\ lsArgs = <<>> /\ FetchFailure) =>
        (lsErr /\ lsKeys = EmptyKeys)

\* A failed "pin ls --type=all" with a direct key that had been collected
\* before the fetch failed.
C14_Witness ==
    /\ lsType = "all" /\ lsArgs = <<>> /\ FetchFailure
    /\ directKeys # {}
    /\ lsErr /\ lsKeys = EmptyKeys

\* C20: for every identifier x that "pin ls --type=all" reports, "pin ls
\* --type=all x" succeeds and reports x in the same category.
C20_ShapesAgree ==
    LET all == pinLsAll("all")
    IN  (/\ lsType = "all" /\ Len(lsArgs) = 1
         /\ ~all.err /\ lsArgs[1] \in DOMAIN all.keys) =>
            /\ ~lsErr
            /\ lsArgs[1] \in DOMAIN lsKeys
            /\ Category(lsKeys[lsArgs[1]]) = Category(all.keys[lsArgs[1]])

\* The cycle a -> b -> a with a pinned recursively.
CycleCase ==
    /\ recursiveKeys = {"a"}
    /\ links = [c \in Cids |-> CASE c = "a" -> {"b"}
                                 [] c = "b" -> {"a"}
                                 [] OTHER   -> {}]

\* C16: on every link graph the indirect computation of "pin ls" comes to
\* an end, and on the cycle a -> b -> a with a pinned recursively it returns
\* the set {a, b}.
C16_Terminates ==
    /\ <>(ePc \in {"done", "err"})
    /\ [](CycleCase /\ ePc = "done" => DOMAIN lsKeys = {"a", "b"})

\* The computation has ended on the cycle.
C16_Witness ==
    /\ CycleCase /\ ePc = "done"
    /\ DOMAIN lsKeys = {"a", "b"}

\* C17: during one indirect computation the links of an identifier are
\* fetched at most once.
C17_LinksFetchedOnce == \A c \in Cids : eCount[c] <= 1

\* C15: a listing of type all that overlaps at most one pin mutation
\* returns what a listing of the pin state before that mutation or of the
\* pin state after it returns.
C15_Serializable ==
    (lsPc = "done" /\ lsOverlap <= 1) =>
        [err |-> lsErr, keys |-> lsKeys] \in lsSerial

====
